---- MODULE Spec2Model ----
(***************************************************************************)
(* Model of the conversational session manager                             *)
(* (src/Gemini_ai_call_mem_tool_v2.py, OpenAIClientWithMemoryAndTools).    *)
(*                                                                         *)
(* A Python str is modelled as a sequence of tokens (each token a TLA+     *)
(* string standing for an indivisible piece of text), so concatenation,    *)
(* strip(), "\n".join and "appears verbatim inside" are computed, not      *)
(* assumed.                                                                *)
(*                                                                         *)
(* The second part models the deferred notification dispatcher             *)
(* (src/tools.py, Tools with run_scheduled and heartbeat_runner): the      *)
(* constructor's steps, the public operations, the scheduler thread that   *)
(* hands due jobs to the worker pool and the workers that run them.  Time  *)
(* is counted in seconds of UTC.                                           *)
(***************************************************************************)
EXTENDS Integers, Sequences, FiniteSets, TLC

\* ---------------------------------------------------------------- bounds
MaxTurns == 2           \* calls of chat_completion_with_tools in a session
MaxParts == 2           \* parts in one model response
MaxFunctionCalls == 2   \* function-call parts the model signals in a session
MaxAddrLen == 3         \* tokens in a recipient address
MaxJobs == 1            \* jobs schedule_whatsapp may create
MaxAdvances == 2        \* times the clock is advanced
MaxStarts == 2          \* processes that construct Tools on the same job store

\* ---------------------------------------------------------------- texts
None == <<"<None>">>            \* Python None where a str is expected
Whitespace == {" ", "\n"}

RECURSIVE LStrip(_)
LStrip(s) ==
    IF s = <<>> THEN s
    ELSE IF Head(s) \in Whitespace THEN LStrip(Tail(s)) ELSE s

RECURSIVE RStrip(_)
RStrip(s) ==
    IF s = <<>> THEN s
    ELSE IF s[Len(s)] \in Whitespace THEN RStrip(SubSeq(s, 1, Len(s) - 1)) ELSE s

\* str.strip()
Strip(s) == RStrip(LStrip(s))

RECURSIVE JoinLines(_)
\* "\n".join(list of str)
JoinLines(ss) ==
    IF ss = <<>> THEN <<>>
    ELSE IF Len(ss) = 1 THEN ss[1]
    ELSE ss[1] \o <<"\n">> \o JoinLines(Tail(ss))

\* needle occurs as a contiguous piece of hay
Contains(hay, needle) ==
    \E i \in 0..(Len(hay) - Len(needle)) :
        SubSeq(hay, i + 1, i + Len(needle)) = needle

IsPrefix(p, s) == Len(p) <= Len(s) /\ SubSeq(s, 1, Len(p)) = p

\* ---------------------------------------------------------------- get_weather
Absent == "<absent>"            \* a key the JSON object does not have
Cities == {"Paris", "Oslo"}
DefaultCity == "Unknown"
WeatherFields == {"temp_C", "weatherDesc", "humidity", "windspeedKmph", "FeelsLikeC"}
SampleValue == [f \in WeatherFields |->
    CASE f = "temp_C" -> "18"
      [] f = "weatherDesc" -> "Clear"
      [] f = "humidity" -> "40"
      [] f = "windspeedKmph" -> "10"
      [] f = "FeelsLikeC" -> "17"]

\* what requests.get(...) / raise_for_status() / response.json() can give
HttpFailures == {"timeout", "http_error", "bad_json", "no_current_condition"}
HttpOk(present) ==
    [status |-> "ok",
     cur |-> [f \in WeatherFields |-> IF f \in present THEN SampleValue[f] ELSE Absent]]
HttpFail(why) == [status |-> why, cur |-> [f \in WeatherFields |-> Absent]]
AllHttpOutcomes ==
    {HttpOk(p) : p \in SUBSET WeatherFields} \cup {HttpFail(w) : w \in HttpFailures}
\* the outcomes drawn inside a conversation turn
TurnHttpOutcomes == {HttpOk(WeatherFields), HttpFail("timeout")}

\* dict.get(key, default)
DictGet(d, k, default) == IF d[k] = Absent THEN default ELSE d[k]

WeatherError(city, why) == <<"Error fetching weather for ", city, ": ", why>>

WeatherLine(city, temp_c, condition, humidity, wind_kmph, feels_like_c) ==
    <<"Weather in ", city, ": ", temp_c, "C, ", condition, ", Humidity: ", humidity,
      "%, Wind: ", wind_kmph, " km/h, Feels like: ", feels_like_c, "C">>

\* get_weather(city) for one outcome of the HTTP exchange
get_weather(city, http) ==
    IF http.status # "ok" THEN WeatherError(city, http.status)
    ELSE IF http.cur["weatherDesc"] = Absent THEN WeatherError(city, "'weatherDesc'")
    ELSE WeatherLine(city,
                     DictGet(http.cur, "temp_C", "N/A"),
                     http.cur["weatherDesc"],
                     DictGet(http.cur, "humidity", "N/A"),
                     DictGet(http.cur, "windspeedKmph", "N/A"),
                     DictGet(http.cur, "FeelsLikeC", "N/A"))

\* ---------------------------------------------------------------- model replies
Turn(role, content) == [role |-> role, content |-> content]

\* the line the user types for the k-th call; the user does not repeat a message,
\* so the turns of a session can be told apart in the stored history
UserMessages(k) == {<<"message ", ToString(k)>>}
SystemPrompt == <<"You are a helpful AI assistant with access to tools.">>
ModelText == <<" ", "Hi", " ">>
FinalText == <<"It is clear.", "\n">>

\* function_call.args as the SDK may hand it over
NoCity == "<no city>"
ArgShapes ==
    {[kind |-> "map", city |-> "Paris"],        \* structured mapping {"city": "Paris"}
     [kind |-> "map", city |-> NoCity],         \* structured mapping without "city"
     [kind |-> "json_obj", city |-> "Oslo"],    \* str '{"city": "Oslo"}'
     [kind |-> "json_other", city |-> NoCity],  \* str holding JSON that is no object
     [kind |-> "raw", city |-> "Oslo"],         \* str that is not JSON: Oslo
     [kind |-> "none", city |-> NoCity]}        \* None
NoArgs == [kind |-> "none", city |-> NoCity]

TextPart(t) == [type |-> "text", text |-> t, name |-> "", args |-> NoArgs]
CallPart(n, a) == [type |-> "function_call", text |-> <<>>, name |-> n, args |-> a]
Parts ==
    {TextPart(ModelText)} \cup {CallPart("get_weather", a) : a \in ArgShapes}
        \cup {CallPart("get_time", NoArgs)}
PartLists == UNION {[1..n -> Parts] : n \in 0..MaxParts}

NumCalls(ps) == Cardinality({i \in 1..Len(ps) : ps[i].type = "function_call"})

NoResponse == [kind |-> "none", parts |-> <<>>, err |-> ""]
ApiError(e) == [kind |-> "error", parts |-> <<>>, err |-> e]
NoCandidates == [kind |-> "no_candidates", parts |-> <<>>, err |-> ""]
Candidate(ps) == [kind |-> "candidate", parts |-> ps, err |-> ""]

NoFinal == [kind |-> "none", text |-> <<>>, err |-> ""]
FinalOutcomes ==
    {[kind |-> "error", text |-> <<>>, err |-> "503 unavailable"],
     [kind |-> "no_text", text |-> <<>>, err |-> ""],
     [kind |-> "text", text |-> FinalText, err |-> ""]}


\* ---------------------------------------------------------------- state
VARIABLES
    conversation_history,   \* self.conversation_history
    pc,                     \* position of the interactive loop / the current turn
    user_input,             \* start_conversation: last line read from the user
    user_message,           \* chat_completion_with_tools: arguments of the call
    system_message,
    messages,               \* local list built at the top of the call
    chat_history,           \* history the chat session was started with
    sent,                   \* texts passed to chat.send_message in this call
    response,               \* what the first send_message gave
    response_text,
    tool_calls,
    tool_results,
    weather_calls,          \* invocations of get_weather in this call
    final_response,         \* what the follow-up send_message gave
    result,                 \* value handed back to the caller
    outcome,                \* "none", "returned" or "raised"
    hist0,                  \* conversation_history when the call began
    okTurns,                \* calls since the last clear that returned an answer
    nCalls,                 \* calls completed since the last clear
    turnsStarted,           \* calls begun in the session
    fcUsed,                 \* function-call parts signalled in the session
    wx                      \* one stand-alone application of get_weather

VARIABLES
    clock,                  \* seconds of UTC elapsed
    advances,               \* how often time has been advanced
    proc,                   \* the process: "down", or how far Tools.__init__ has come
    starts,                 \* constructions of Tools so far
    TOOLS_INSTANCE,         \* module global of tools.py
    creds,                  \* TWILIO_* variables of the process environment
    store,                  \* the durable job store (jobs.sqlite)
    pool,                   \* runs handed to the worker pool, not yet executed
    nextId,                 \* job identifiers handed out so far
    op,                     \* the public call just made and what it gave its caller
    jobLog,                 \* per scheduled job: what has happened to it
    hbLog,                  \* what has happened to heartbeat runs
    chat_ctor,              \* one construction of the conversational client
    second,                 \* the scheduler of a second Tools instance of the process
    addr                    \* one stand-alone normalisation of a recipient address

dvars == <<clock, advances, proc, starts, TOOLS_INSTANCE, creds, store, pool,
           nextId, op, jobLog, hbLog, chat_ctor, second, addr>>

vars == <<conversation_history, pc, user_input, user_message, system_message,
          messages, chat_history, sent, response, response_text, tool_calls,
          tool_results, weather_calls, final_response, result, outcome, hist0,
          okTurns, nCalls, turnsStarted, fcUsed, wx, dvars>>

locals == <<user_message, system_message, messages, chat_history, sent, response,
            response_text, tool_calls, tool_results, weather_calls,
            final_response, result, outcome>>

NoInput == <<"<nothing read yet>">>
WxIdle == [city |-> DefaultCity, http |-> HttpFail("timeout"), result |-> None]

LocalsCleared ==
    /\ user_message = None
    /\ system_message = None
    /\ messages = <<>>
    /\ chat_history = <<>>
    /\ sent = <<>>
    /\ response = NoResponse
    /\ response_text = <<>>
    /\ tool_calls = <<>>
    /\ tool_results = <<>>
    /\ weather_calls = <<>>
    /\ final_response = NoFinal
    /\ result = None
    /\ outcome = "none"

\* ---------------------------------------------------------------- dispatcher: values
HeartbeatSeconds == 30      \* add_job(heartbeat_runner, 'interval', seconds=30, ...)
MisfireGrace == 86400       \* job_defaults: misfire_grace_time
MaxInstances == 3           \* job_defaults: max_instances
SecondsPerHour == 3600      \* timedelta(hours=...)

\* str.startswith for a one-token prefix
StartsWith(s, tok) == s # <<>> /\ Head(s) = tok

RECURSIVE LStripPlus(_)
\* str.lstrip("+")
LStripPlus(s) == IF StartsWith(s, "+") THEN LStripPlus(Tail(s)) ELSE s

NormalizeTo_alwaysPrefix(to_number) == <<"whatsapp:", "+">> \o Strip(to_number)

\* send_whatsapp, lines 121-127: the recipient in the channel-prefixed form
NormalizeTo(to_number) ==
    LET to_wh == Strip(to_number)
    IN  IF StartsWith(to_wh, "whatsapp:") THEN to_wh
        ELSE IF StartsWith(to_wh, "+") THEN <<"whatsapp:">> \o to_wh
        ELSE <<"whatsapp:", "+">> \o to_wh

\* send_whatsapp, lines 117-119: the sender in the channel-prefixed form
NormalizeFrom(from_whatsapp) ==
    LET from_wh == Strip(from_whatsapp)
    IN  IF StartsWith(from_wh, "whatsapp:") THEN from_wh
        ELSE <<"whatsapp:">> \o LStripPlus(from_wh)

AddrTokens == {" ", "whatsapp:", "+", "9198"}
Addresses == UNION {[1..n -> AddrTokens] : n \in 0..MaxAddrLen}
AddrIdle == [input |-> None, once |-> None, twice |-> None]

\* the process environment: TWILIO_ACCOUNT_SID, TWILIO_AUTH_TOKEN, TWILIO_WHATSAPP_FROM
Unset == "<unset>"              \* os.getenv gives None
NoCreds == [sid |-> Unset, token |-> Unset, from_whatsapp |-> None]
AllSet == [sid |-> "AC123", token |-> "secret", from_whatsapp |-> <<"+", "1415">>]

\* the environments a process may be started in
CredCases ==
    {AllSet,
     [sid |-> "AC123", token |-> "secret", from_whatsapp |-> <<"whatsapp:", "+", "1415">>],
     [sid |-> "AC123", token |-> Unset, from_whatsapp |-> <<"+", "1415">>],
     [sid |-> "AC123", token |-> "secret", from_whatsapp |-> None]}

\* line 59: a client exists only when both the sid and the token are set
HasClient(c) == c.sid \notin {Unset, ""} /\ c.token \notin {Unset, ""}

\* line 112: `not self.client or not self.from_whatsapp`
CanSend(c) == HasClient(c) /\ c.from_whatsapp # None /\ c.from_whatsapp # <<>>

\* the gaps by which time moves on: 30 s, 25 h
TimeJumps == {HeartbeatSeconds, 25 * SecondsPerHour}

Recipients == {<<"+", "9198">>}
Bodies == {<<"ping">>}

\* delay_hours as a caller may pass it
DelayInputs ==
    {[kind |-> "number", hours |-> 0],          \* 0
     [kind |-> "number", hours |-> 12],         \* 12 or 12.0
     [kind |-> "numeric_text", hours |-> 12],   \* "12"
     [kind |-> "inf", hours |-> 0],             \* float("inf"), 1e30: too large for a timedelta
     [kind |-> "text", hours |-> 0],            \* "soon"
     [kind |-> "none", hours |-> 0]}            \* None

\* jobs of the store, runs of the pool
JobIds == {ToString(i) : i \in 1..MaxJobs}
HeartbeatId == "heartbeat_job"
Job(id, trigger, func, next_run_time, args) ==
    [id |-> id, trigger |-> trigger, func |-> func,
     next_run_time |-> next_run_time, args |-> args]
\* a run in the pool of one scheduler's executor
Run(j, run_time, by) ==
    [id |-> j.id, func |-> j.func, args |-> j.args, run_time |-> run_time, by |-> by]

StoreIds(st) == {j.id : j \in st}

NoLog == [scheduled |-> FALSE, args |-> <<>>, run |-> 0, dispatched |-> 0,
          sends |-> 0, missed |-> FALSE, unregistered |-> FALSE,
          cancelled |-> FALSE, dueAtStart |-> FALSE]
NoHbLog == [unregistered |-> FALSE]

NoDelay == [kind |-> "none", hours |-> 0]
OpIdle == [name |-> "none", id |-> "", args |-> <<>>, delay |-> NoDelay, outcome |-> "none",
           result |-> None, listing |-> {}, before |-> {}]
ChatCtorIdle == [api_key |-> Unset, env_key |-> Unset, state |-> "none"]
NoSecond == [running |-> FALSE, due |-> {}]

\* no process yet, an empty job store
NoProcess ==
    /\ clock = 0
    /\ advances = 0
    /\ proc = "down"
    /\ starts = 0
    /\ TOOLS_INSTANCE = "None"
    /\ store = {}
    /\ pool = {}
    /\ nextId = 0
    /\ op = OpIdle
    /\ jobLog = [i \in JobIds |-> NoLog]
    /\ hbLog = NoHbLog
    /\ chat_ctor = ChatCtorIdle
    /\ second = NoSecond
    /\ addr = AddrIdle

\* nothing of the dispatcher exists and nothing is configured for it
DispIdle == creds = NoCreds /\ NoProcess

\* __init__: an empty history; start_conversation is waiting for input
Init ==
    /\ conversation_history = <<>>
    /\ pc = "AWAITING_INPUT"
    /\ user_input = NoInput
    /\ LocalsCleared
    /\ hist0 = <<>>
    /\ okTurns = <<>>
    /\ nCalls = 0
    /\ turnsStarted = 0
    /\ fcUsed = 0
    /\ wx = WxIdle
    /\ DispIdle

\* ---------------------------------------------------------------- helpers of the call
ErrorPrefix == "Error making Gemini API call: "

Caught_reraise(e) == [outcome |-> "raised", result |-> None]

\* except Exception as e: return f"Error making Gemini API call: {str(e)}"
Caught(e) == [outcome |-> "returned", result |-> <<ErrorPrefix, e>>]

IsErrorString(s) == Len(s) >= 1 /\ s[1] = ErrorPrefix

\* `if system_message:` -- None and "" are falsy
Truthy(s) == s # None /\ s # <<>>

\* lines 60-70: optional system prompt, the stored history, the new user text
BuildMessages(h, sys, um) ==
    (IF Truthy(sys) THEN <<Turn("system", sys)>> ELSE <<>>) \o h \o <<Turn("user", um)>>

\* lines 95-101: stored turns in the SDK's shape; every role but "user" becomes "model"
FormatHistory(h) ==
    [i \in 1..Len(h) |->
        [role |-> IF h[i].role = "user" THEN "user" ELSE "model", text |-> h[i].content]]

RECURSIVE ConcatText(_)
\* lines 129-136: response_text is the concatenation of the text parts
ConcatText(ps) ==
    IF ps = <<>> THEN <<>>
    ELSE IF Head(ps).type = "text" THEN Head(ps).text \o ConcatText(Tail(ps))
    ELSE ConcatText(Tail(ps))

RECURSIVE CollectCalls(_)
\* lines 129-134: tool_calls are the function-call parts, in order
CollectCalls(ps) ==
    IF ps = <<>> THEN <<>>
    ELSE IF Head(ps).type = "function_call"
         THEN <<[name |-> Head(ps).name, arguments |-> Head(ps).args]>> \o CollectCalls(Tail(ps))
         ELSE CollectCalls(Tail(ps))

ParseArgs_noDecode(a) ==
    CASE a.kind = "map"        -> [ok |-> TRUE, city |-> IF a.city = NoCity THEN DefaultCity ELSE a.city]
      [] a.kind = "json_obj"   -> [ok |-> TRUE, city |-> DefaultCity]
      [] a.kind = "raw"        -> [ok |-> TRUE, city |-> DefaultCity]
      [] a.kind = "none"       -> [ok |-> TRUE, city |-> DefaultCity]
      [] a.kind = "json_other" -> [ok |-> FALSE, city |-> DefaultCity]

\* lines 145-153: decode the argument payload and read its "city"
\*   str  -> json.loads, falling back to {"city": args} when it is not JSON;
\*           JSON that is not an object has no .get and raises
\*   None -> {}
ParseArgs(a) ==
    CASE a.kind = "map"        -> [ok |-> TRUE, city |-> IF a.city = NoCity THEN DefaultCity ELSE a.city]
      [] a.kind = "json_obj"   -> [ok |-> TRUE, city |-> IF a.city = NoCity THEN DefaultCity ELSE a.city]
      [] a.kind = "raw"        -> [ok |-> TRUE, city |-> a.city]
      [] a.kind = "none"       -> [ok |-> TRUE, city |-> DefaultCity]
      [] a.kind = "json_other" -> [ok |-> FALSE, city |-> DefaultCity]

IsImplemented_any(name) == TRUE

\* line 144: the static dispatch knows one tool
IsImplemented(name) == name = "get_weather"

LoopFinished_afterFirst(rs, tcs) == Len(rs) >= 1

\* the for loop of line 143 has run over every tool call
LoopFinished(rs, tcs) == Len(rs) = Len(tcs)

NotImplemented(name) == <<"Tool '", name, "' not implemented.">>

ToolResult(name, content) == [tool_call_id |-> name, content |-> content]

Contents(rs) == [i \in 1..Len(rs) |-> rs[i].content]

ToolTurnEntries_skipEmpty(text, rs) ==
    (IF text # <<>> THEN <<Turn("assistant", text)>> ELSE <<>>)
        \o <<Turn("tool", JoinLines(Contents(rs)))>>

\* lines 166-170: the assistant's direct text, then one synthetic "tool" turn
ToolTurnEntries(text, rs) ==
    <<Turn("assistant", text), Turn("tool", JoinLines(Contents(rs)))>>

NoToolEntries_noAssistant(um, ai) == <<Turn("user", um)>>

\* lines 189-191: the user message, then the stripped reply
NoToolEntries(um, ai) == <<Turn("user", um), Turn("assistant", ai)>>

\* line 173
FollowUp(rs) == JoinLines(Contents(rs))

\* the call ends: either a value is returned or an exception leaves the call
Leave(o) ==
    /\ pc' = "DONE"
    /\ outcome' = o.outcome
    /\ result' = o.result

ghosts == <<hist0, okTurns, nCalls, turnsStarted, wx, dvars>>


\* ---------------------------------------------------------------- start_conversation
\* lines 221-223: 'quit', 'exit' or 'bye' leaves the loop
Quit ==
    /\ pc = "AWAITING_INPUT"
    /\ user_input' = <<"quit">>
    /\ pc' = "EXITED"
    /\ UNCHANGED <<conversation_history, locals, hist0, okTurns, nCalls, turnsStarted, fcUsed, wx, dvars>>

\* lines 226-228 and 257-294: 'history' prints the stored turns
show_conversation_history ==
    /\ pc = "AWAITING_INPUT"
    /\ user_input' = <<"history">>
    /\ UNCHANGED <<conversation_history, pc, locals, hist0, okTurns, nCalls, turnsStarted, fcUsed, wx, dvars>>

clear_dropsLast ==
    /\ pc = "AWAITING_INPUT"
    /\ user_input' = <<"clear">>
    /\ conversation_history' =
            SubSeq(conversation_history, 1, Len(conversation_history) - 1)
    /\ okTurns' = <<>>
    /\ nCalls' = 0
    /\ UNCHANGED <<pc, locals, hist0, turnsStarted, fcUsed, wx, dvars>>

\* lines 230-232 and 296-299: 'clear' empties the stored turns
clear_conversation_history ==
    /\ pc = "AWAITING_INPUT"
    /\ user_input' = <<"clear">>
    /\ conversation_history' = <<>>
    /\ okTurns' = <<>>
    /\ nCalls' = 0
    /\ UNCHANGED <<pc, locals, hist0, turnsStarted, fcUsed, wx, dvars>>

\* lines 234-236: an empty line is rejected
EmptyInput ==
    /\ pc = "AWAITING_INPUT"
    /\ user_input' = <<>>
    /\ UNCHANGED <<conversation_history, pc, locals, hist0, okTurns, nCalls, turnsStarted, fcUsed, wx, dvars>>

StartTurn_appendsUser ==
    /\ pc = "AWAITING_INPUT"
    /\ turnsStarted < MaxTurns
    /\ \E um \in UserMessages(turnsStarted + 1) :
        /\ user_input' = um
        /\ user_message' = um
        /\ system_message' = SystemPrompt
        /\ messages' = BuildMessages(conversation_history, SystemPrompt, um)
        /\ conversation_history' = Append(conversation_history, Turn("user", um))
    /\ chat_history' = FormatHistory(conversation_history)
    /\ hist0' = conversation_history
    /\ turnsStarted' = turnsStarted + 1
    /\ pc' = "REQUEST_BUILT"
    /\ UNCHANGED <<sent, response, response_text, tool_calls,
                   tool_results, weather_calls, final_response, result, outcome,
                   okTurns, nCalls, fcUsed, wx, dvars>>

\* lines 245-248, then 59-104 of chat_completion_with_tools: the local message
\* list, the formatted history and the chat session; the stored history is not touched
StartTurn ==
    /\ pc = "AWAITING_INPUT"
    /\ turnsStarted < MaxTurns
    /\ \E um \in UserMessages(turnsStarted + 1) :
        /\ user_input' = um
        /\ user_message' = um
        /\ system_message' = SystemPrompt
        /\ messages' = BuildMessages(conversation_history, SystemPrompt, um)
    /\ chat_history' = FormatHistory(conversation_history)
    /\ hist0' = conversation_history
    /\ turnsStarted' = turnsStarted + 1
    /\ pc' = "REQUEST_BUILT"
    /\ UNCHANGED <<conversation_history, sent, response, response_text, tool_calls,
                   tool_results, weather_calls, final_response, result, outcome,
                   okTurns, nCalls, fcUsed, wx, dvars>>

\* ---------------------------------------------------------------- chat_completion_with_tools
\* lines 107-117: chat.send_message(user_message, ...); it raises, or gives a
\* response without candidates, or a candidate with parts
SendFirst ==
    /\ pc = "REQUEST_BUILT"
    /\ sent' = Append(sent, user_message)
    /\ \/ /\ \E e \in {"429 quota exceeded"} : 
                /\ response' = ApiError(e)
                /\ Leave(Caught(e))
          /\ UNCHANGED fcUsed
       \/ /\ response' = NoCandidates
          /\ pc' = "MODEL_CALLED"
          /\ UNCHANGED <<result, outcome, fcUsed>>
       \/ \E ps \in PartLists :
            /\ fcUsed + NumCalls(ps) <= MaxFunctionCalls
            /\ response' = Candidate(ps)
            /\ fcUsed' = fcUsed + NumCalls(ps)
            /\ pc' = "MODEL_CALLED"
            /\ UNCHANGED <<result, outcome>>
    /\ UNCHANGED <<conversation_history, user_input, user_message, system_message,
                   messages, chat_history, response_text, tool_calls, tool_results,
                   weather_calls, final_response, hist0, okTurns, nCalls,
                   turnsStarted, wx, dvars>>

\* lines 120-140 and 187-192: read the candidate's parts; with tool calls the
\* user message is stored and the tool loop begins, otherwise the user message
\* and the stripped reply are stored and the reply is returned
HandleResponse ==
    /\ pc = "MODEL_CALLED"
    /\ IF response.kind = "no_candidates"
       THEN /\ Leave(Caught("list index out of range"))
            /\ UNCHANGED <<conversation_history, response_text, tool_calls>>
       ELSE /\ response_text' = ConcatText(response.parts)
            /\ tool_calls' = CollectCalls(response.parts)
            /\ IF tool_calls' # <<>>
               THEN /\ conversation_history' =
                            Append(conversation_history, Turn("user", user_message))
                    /\ pc' = "TOOL_DETECTED"
                    /\ UNCHANGED <<result, outcome>>
               ELSE /\ conversation_history' = conversation_history \o
                            NoToolEntries(user_message, Strip(response_text'))
                    /\ Leave([outcome |-> "returned", result |-> Strip(response_text')])
    /\ UNCHANGED <<user_input, user_message, system_message, messages, chat_history,
                   sent, response, tool_results, weather_calls, final_response,
                   ghosts, fcUsed>>

\* lines 143-163: one iteration of the loop over tool_calls
ExecTool ==
    /\ pc = "TOOL_DETECTED"
    /\ ~LoopFinished(tool_results, tool_calls)
    /\ LET i == Len(tool_results) + 1
           tc == tool_calls[i]
           parsed == ParseArgs(tc.arguments)
       IN  IF IsImplemented(tc.name)
           THEN IF parsed.ok
                THEN \E http \in TurnHttpOutcomes :
                        /\ weather_calls' = Append(weather_calls,
                                [idx |-> i, city |-> parsed.city,
                                 returned |-> get_weather(parsed.city, http)])
                        /\ tool_results' = Append(tool_results,
                                ToolResult(tc.name, get_weather(parsed.city, http)))
                        /\ UNCHANGED <<pc, result, outcome>>
                ELSE /\ Leave(Caught("object has no attribute 'get'"))
                     /\ UNCHANGED <<weather_calls, tool_results>>
           ELSE /\ tool_results' = Append(tool_results,
                        ToolResult(tc.name, NotImplemented(tc.name)))
                /\ UNCHANGED <<pc, result, outcome, weather_calls>>
    /\ UNCHANGED <<conversation_history, user_input, user_message, system_message,
                   messages, chat_history, sent, response, response_text, tool_calls,
                   final_response, ghosts, fcUsed>>

\* lines 165-170: after the loop, the assistant's direct text and the tool turn
AppendToolTurn ==
    /\ pc = "TOOL_DETECTED"
    /\ LoopFinished(tool_results, tool_calls)
    /\ conversation_history' = conversation_history \o
            ToolTurnEntries(response_text, tool_results)
    /\ pc' = "TOOL_EXECUTED"
    /\ UNCHANGED <<user_input, locals, ghosts, fcUsed>>

\* lines 172-181: the follow-up send_message with the joined tool results
SendFollowUp ==
    /\ pc = "TOOL_EXECUTED"
    /\ sent' = Append(sent, FollowUp(tool_results))
    /\ \E f \in FinalOutcomes :
        /\ final_response' = f
        /\ IF f.kind = "error"
           THEN Leave(Caught(f.err))
           ELSE /\ pc' = "FOLLOWUP_CALLED"
                /\ UNCHANGED <<result, outcome>>
    /\ UNCHANGED <<conversation_history, user_input, user_message, system_message,
                   messages, chat_history, response, response_text, tool_calls,
                   tool_results, weather_calls, ghosts, fcUsed>>

\* lines 183-185: final_response.text.strip() is stored and returned; .text
\* raises when the reply carries no text
Finish ==
    /\ pc = "FOLLOWUP_CALLED"
    /\ IF final_response.kind = "text"
       THEN /\ conversation_history' =
                    Append(conversation_history, Turn("assistant", Strip(final_response.text)))
            /\ Leave([outcome |-> "returned", result |-> Strip(final_response.text)])
       ELSE /\ Leave(Caught("response.text requires a text part"))
            /\ UNCHANGED conversation_history
    /\ UNCHANGED <<user_input, user_message, system_message, messages, chat_history,
                   sent, response, response_text, tool_calls, tool_results,
                   weather_calls, final_response, ghosts, fcUsed>>

\* lines 249 and 254-255: the loop prints the response (or the exception) and
\* goes back to reading input; the call's locals are gone
ReturnToLoop ==
    /\ pc = "DONE"
    /\ pc' = "AWAITING_INPUT"
    /\ nCalls' = nCalls + 1
    /\ okTurns' = IF outcome = "returned" /\ ~IsErrorString(result)
                  THEN Append(okTurns, [user |-> user_message, answer |-> result])
                  ELSE okTurns
    /\ user_message' = None
    /\ system_message' = None
    /\ messages' = <<>>
    /\ chat_history' = <<>>
    /\ sent' = <<>>
    /\ response' = NoResponse
    /\ response_text' = <<>>
    /\ tool_calls' = <<>>
    /\ tool_results' = <<>>
    /\ weather_calls' = <<>>
    /\ final_response' = NoFinal
    /\ result' = None
    /\ outcome' = "none"
    /\ hist0' = <<>>
    /\ UNCHANGED <<conversation_history, user_input, turnsStarted, fcUsed, wx, dvars>>

Next ==
    \/ Quit
    \/ show_conversation_history
    \/ clear_conversation_history
    \/ EmptyInput
    \/ StartTurn
    \/ SendFirst
    \/ HandleResponse
    \/ ExecTool
    \/ AppendToolTurn
    \/ SendFollowUp
    \/ Finish
    \/ ReturnToLoop

Spec == Init /\ [][Next]_vars

\* the steps of a call in progress; the code is sequential and its network
\* calls return or raise, so a call in progress keeps stepping
TurnStep ==
    \/ SendFirst
    \/ HandleResponse
    \/ ExecTool
    \/ AppendToolTurn
    \/ SendFollowUp
    \/ Finish
    \/ ReturnToLoop

FairSpec == Spec /\ WF_vars(TurnStep)


\* ---------------------------------------------------------------- get_weather alone
\* one application of get_weather to a city and an outcome of the HTTP exchange
WeatherInit ==
    /\ conversation_history = <<>>
    /\ pc = "AWAITING_INPUT"
    /\ user_input = NoInput
    /\ LocalsCleared
    /\ hist0 = <<>>
    /\ okTurns = <<>>
    /\ nCalls = 0
    /\ turnsStarted = 0
    /\ fcUsed = 0
    /\ wx \in {[city |-> c, http |-> h, result |-> None] :
                    c \in Cities \cup {DefaultCity}, h \in AllHttpOutcomes}
    /\ DispIdle

ApplyWeather ==
    /\ wx.result = None
    /\ wx' = [wx EXCEPT !.result = get_weather(wx.city, wx.http)]
    /\ UNCHANGED <<conversation_history, pc, user_input, locals, hist0, okTurns,
                   nCalls, turnsStarted, fcUsed, dvars>>

WeatherNext == ApplyWeather

WeatherSpec == WeatherInit /\ [][WeatherNext]_vars

\* ---------------------------------------------------------------- properties
InTurn == pc \notin {"AWAITING_INPUT", "EXITED"}

CountRole(h, r) == Cardinality({i \in 1..Len(h) : h[i].role = r})

RECURSIVE Embeds(_, _)
\* pat is a subsequence of h
Embeds(h, pat) ==
    IF pat = <<>> THEN TRUE
    ELSE IF h = <<>> THEN FALSE
    ELSE IF Head(h) = Head(pat) THEN Embeds(Tail(h), Tail(pat))
    ELSE Embeds(Tail(h), pat)

RECURSIVE TurnPattern(_)
TurnPattern(ts) ==
    IF ts = <<>> THEN <<>>
    ELSE <<Turn("user", Head(ts).user), Turn("assistant", Head(ts).answer)>>
            \o TurnPattern(Tail(ts))

CallFailed ==
    \/ response.kind \in {"error", "no_candidates"} /\ pc = "DONE"
    \/ final_response.kind = "error"
    \/ final_response.kind = "no_text" /\ pc = "DONE"
    \/ /\ pc = "DONE"
       /\ Len(tool_results) < Len(tool_calls)

\* C2: chat_completion_with_tools never raises to its caller; when the first
\* model call, the follow-up model call or a step in between fails, the call
\* returns a string that begins with the error marker.
C2_NeverRaises ==
    /\ outcome # "raised"
    /\ pc = "DONE" => outcome = "returned" /\ result # None
    /\ CallFailed => pc = "DONE" /\ IsErrorString(result)

C2_Witness ==
    /\ pc = "DONE"
    /\ final_response.kind = "error"
    /\ Len(sent) = 2
    /\ result = <<"Error making Gemini API call: ", "503 unavailable">>

C4_RequestCarriesSystemPrompt ==
    (InTurn /\ Len(sent) >= 1) =>
        [i \in 1..Len(chat_history) |-> chat_history[i].text] \o <<sent[1]>>
            = (IF system_message # None THEN <<system_message>> ELSE <<>>)
                \o [i \in 1..Len(hist0) |-> hist0[i].content]
                \o <<user_message>>

\* the city a payload carries, when it carries one
CarriesCity(a) == a.kind \in {"map", "json_obj", "raw"} /\ a.city # NoCity

LookupsFor(i) == {k \in 1..Len(weather_calls) : weather_calls[k].idx = i}

\* C5: a signalled get_weather call with city c is looked up exactly once, with
\* city c, and the text the lookup returned is inside the follow-up message,
\* which is the tool results joined by newlines in the order of the calls.
C5_ToolRoundTrip ==
    InTurn =>
        /\ \A i \in 1..Len(tool_calls) :
                /\ Cardinality(LookupsFor(i)) <= 1
                /\ \A k \in LookupsFor(i) :
                        /\ tool_calls[i].name = "get_weather"
                        /\ CarriesCity(tool_calls[i].arguments) =>
                                weather_calls[k].city = tool_calls[i].arguments.city
        /\ Len(sent) = 2 =>
                /\ \A i \in 1..Len(tool_calls) :
                        (tool_calls[i].name = "get_weather") =>
                            /\ Cardinality(LookupsFor(i)) = 1
                            /\ \A k \in LookupsFor(i) :
                                /\ tool_results[i].content = weather_calls[k].returned
                                /\ Contains(sent[2], weather_calls[k].returned)
                /\ Len(tool_results) = Len(tool_calls)
                /\ sent[2] = JoinLines([i \in 1..Len(tool_results) |-> tool_results[i].content])
        /\ (pc = "DONE" /\ tool_calls # <<>>
                /\ \A i \in 1..Len(tool_calls) : tool_calls[i].arguments.kind # "json_other")
              => Len(sent) = 2

C5_Witness ==
    /\ Len(sent) = 2
    /\ Len(tool_calls) = 2
    /\ tool_calls[1] = [name |-> "get_weather", arguments |-> [kind |-> "json_obj", city |-> "Oslo"]]
    /\ tool_calls[2] = [name |-> "get_weather", arguments |-> [kind |-> "map", city |-> "Paris"]]
    /\ weather_calls[1].city = "Oslo"
    /\ weather_calls[2].city = "Paris"
    /\ sent[2] = weather_calls[1].returned \o <<"\n">> \o weather_calls[2].returned


\* the positions a turn may move between
TurnEdges ==
    {<<"AWAITING_INPUT", "REQUEST_BUILT">>, <<"AWAITING_INPUT", "EXITED">>,
     <<"REQUEST_BUILT", "MODEL_CALLED">>, <<"REQUEST_BUILT", "DONE">>,
     <<"MODEL_CALLED", "TOOL_DETECTED">>, <<"MODEL_CALLED", "DONE">>,
     <<"TOOL_DETECTED", "TOOL_EXECUTED">>, <<"TOOL_DETECTED", "DONE">>,
     <<"TOOL_EXECUTED", "FOLLOWUP_CALLED">>, <<"TOOL_EXECUTED", "DONE">>,
     <<"FOLLOWUP_CALLED", "DONE">>,
     <<"DONE", "AWAITING_INPUT">>}

TurnShape ==
    /\ Len(sent) <= 2
    /\ pc \in {"AWAITING_INPUT", "EXITED"} => Len(sent) = 0
    /\ pc \in {"MODEL_CALLED", "TOOL_DETECTED", "TOOL_EXECUTED"} => Len(sent) = 1
    /\ pc = "FOLLOWUP_CALLED" => Len(sent) = 2
    /\ Len(sent) = 2 =>
            /\ tool_calls # <<>>
            /\ Len(tool_results) = Len(tool_calls)
            /\ \A i \in 1..Len(tool_calls) :
                    tool_calls[i].name = "get_weather" =>
                        \E k \in 1..Len(weather_calls) : weather_calls[k].idx = i
    /\ (pc = "DONE" /\ response.kind = "candidate" /\ NumCalls(response.parts) = 0) =>
            /\ Len(sent) = 1
            /\ result = Strip(ConcatText(response.parts))
    /\ pc = "DONE" => outcome = "returned" /\ result # None
    /\ (InTurn /\ pc # "DONE") => outcome = "none" /\ result = None

\* C6: a turn moves AWAITING_INPUT -> MODEL_CALLED -> (TOOL_DETECTED ->
\* TOOL_EXECUTED -> FOLLOWUP_CALLED -> DONE | DONE); the follow-up call is made
\* only when a tool call was detected and every detected call has been executed;
\* the model is called at most twice; the turn ends with exactly one response
\* string and the loop waits for input again.
C6_TurnStateMachine ==
    /\ []TurnShape
    /\ [][pc' # pc => <<pc, pc'>> \in TurnEdges]_vars
    /\ (InTurn ~> pc = "AWAITING_INPUT")

C6_Witness ==
    /\ pc = "DONE"
    /\ Len(sent) = 2
    /\ Len(tool_calls) = 2
    /\ Len(weather_calls) = 2
    /\ result = Strip(FinalText)

\* C7: a signalled call whose name is not get_weather gets the "not
\* implemented" string as its result and no weather lookup; it does not end
\* the turn: the calls after it are handled and the follow-up call is made.
C7_UnknownToolNotImplemented ==
    InTurn =>
        /\ \A i \in 1..Len(tool_results) :
                tool_calls[i].name # "get_weather" =>
                    /\ tool_results[i].content =
                            <<"Tool '", tool_calls[i].name, "' not implemented.">>
                    /\ LookupsFor(i) = {}
        /\ \A k \in 1..Len(weather_calls) :
                tool_calls[weather_calls[k].idx].name = "get_weather"
        /\ (pc = "DONE" /\ Len(tool_results) < Len(tool_calls)) =>
                tool_calls[Len(tool_results) + 1].name = "get_weather"
        /\ (pc = "DONE" /\ tool_calls # <<>>
                /\ \A i \in 1..Len(tool_calls) : tool_calls[i].name # "get_weather")
              => Len(sent) = 2 /\ Len(tool_results) = Len(tool_calls)

C7_Witness ==
    /\ Len(sent) = 2
    /\ Len(tool_calls) = 2
    /\ tool_calls[1].name = "get_time"
    /\ tool_calls[2].name = "get_weather"
    /\ tool_results[1].content = <<"Tool '", "get_time", "' not implemented.">>
    /\ Len(weather_calls) = 1
    /\ weather_calls[1].idx = 2

ClearStep ==
    pc = "AWAITING_INPUT" /\ pc' = "AWAITING_INPUT" /\ user_input' = <<"clear">>

ShowStep ==
    pc = "AWAITING_INPUT" /\ pc' = "AWAITING_INPUT" /\ user_input' = <<"history">>

\* C8: the history is append-only except for clear: a call keeps the history
\* it started with as a prefix, show_conversation_history changes nothing, and
\* clear_conversation_history leaves the history empty.
C8_AppendOnlyExceptClear ==
    /\ [](InTurn => IsPrefix(hist0, conversation_history))
    /\ [][IF ClearStep THEN conversation_history' = <<>>
          ELSE IsPrefix(conversation_history, conversation_history')]_vars
    /\ [][ShowStep => conversation_history' = conversation_history]_vars

C8_Witness ==
    /\ pc = "AWAITING_INPUT"
    /\ user_input = <<"clear">>
    /\ conversation_history = <<>>
    /\ fcUsed >= 1
    /\ turnsStarted = 1

\* C9: a turn that used a tool and returned an answer appended exactly the user
\* message, the assistant's direct text, one "tool" entry whose content is the
\* follow-up message (the newline-joined tool outputs), and the final reply; a
\* turn in which the model replied without a tool call appended exactly the
\* user message and the reply.
C9_EntriesPerTurn ==
    pc = "DONE" =>
        /\ (NumCalls(response.parts) > 0 /\ ~IsErrorString(result)) =>
                /\ Len(sent) = 2
                /\ conversation_history = hist0 \o
                        <<Turn("user", user_message),
                          Turn("assistant", ConcatText(response.parts)),
                          Turn("tool", sent[2]),
                          Turn("assistant", result)>>
                /\ sent[2] = JoinLines([i \in 1..Len(tool_results) |-> tool_results[i].content])
        /\ (response.kind = "candidate" /\ NumCalls(response.parts) = 0) =>
                conversation_history = hist0 \o
                        <<Turn("user", user_message), Turn("assistant", result)>>

C9_Witness ==
    /\ pc = "DONE"
    /\ Len(tool_calls) = 2
    /\ ~IsErrorString(result)
    /\ Len(hist0) = 2
    /\ Len(conversation_history) = 6
    /\ conversation_history[4] = Turn("assistant", <<>>)
    /\ conversation_history[5].role = "tool"

\* C10: for a fetched response in which any of the five current-condition
\* fields is absent, get_weather returns the formatted weather line with "N/A"
\* in the place of each absent field.
C10_AbsentFieldsRenderNA ==
    (wx.result # None /\ wx.http.status = "ok") =>
        wx.result =
            <<"Weather in ", wx.city, ": ",
              IF wx.http.cur["temp_C"] = Absent THEN "N/A" ELSE wx.http.cur["temp_C"],
              "C, ",
              IF wx.http.cur["weatherDesc"] = Absent THEN "N/A" ELSE wx.http.cur["weatherDesc"],
              ", Humidity: ",
              IF wx.http.cur["humidity"] = Absent THEN "N/A" ELSE wx.http.cur["humidity"],
              "%, Wind: ",
              IF wx.http.cur["windspeedKmph"] = Absent THEN "N/A" ELSE wx.http.cur["windspeedKmph"],
              " km/h, Feels like: ",
              IF wx.http.cur["FeelsLikeC"] = Absent THEN "N/A" ELSE wx.http.cur["FeelsLikeC"],
              "C">>


\* C20: whenever chat_completion_with_tools returns the error string, the
\* history equals its value before the call, wherever the failure occurred.
C20_FailedTurnLeavesHistory ==
    (pc = "DONE" /\ IsErrorString(result)) => conversation_history = hist0


\* ---------------------------------------------------------------- the conversation is idle
chatvars == <<conversation_history, pc, user_input, locals, hist0, okTurns, nCalls,
              turnsStarted, fcUsed, wx>>

ChatIdle ==
    /\ conversation_history = <<>>
    /\ pc = "AWAITING_INPUT"
    /\ user_input = NoInput
    /\ LocalsCleared
    /\ hist0 = <<>>
    /\ okTurns = <<>>
    /\ nCalls = 0
    /\ turnsStarted = 0
    /\ fcUsed = 0
    /\ wx = WxIdle

\* ---------------------------------------------------------------- address normalisation alone
AddrInit ==
    /\ ChatIdle
    /\ clock = 0
    /\ advances = 0
    /\ proc = "down"
    /\ starts = 0
    /\ TOOLS_INSTANCE = "None"
    /\ creds = NoCreds
    /\ store = {}
    /\ pool = {}
    /\ nextId = 0
    /\ op = OpIdle
    /\ jobLog = [i \in JobIds |-> NoLog]
    /\ hbLog = NoHbLog
    /\ chat_ctor = ChatCtorIdle
    /\ second = NoSecond
    /\ addr \in {[input |-> a, once |-> None, twice |-> None] : a \in Addresses}

dispstate == <<clock, advances, proc, starts, TOOLS_INSTANCE, creds, store, pool,
               nextId, op, jobLog, hbLog, chat_ctor, second>>

\* the recipient of one send_whatsapp call is normalised
NormalizeOnce ==
    /\ addr.once = None
    /\ addr' = [addr EXCEPT !.once = NormalizeTo(addr.input)]
    /\ UNCHANGED <<chatvars, dispstate>>

\* the normalised recipient is passed to send_whatsapp again
NormalizeAgain ==
    /\ addr.once # None
    /\ addr.twice = None
    /\ addr' = [addr EXCEPT !.twice = NormalizeTo(addr.once)]
    /\ UNCHANGED <<chatvars, dispstate>>

AddrNext == NormalizeOnce \/ NormalizeAgain

AddrSpec == AddrInit /\ [][AddrNext]_vars

\* C17: normalising a normalised recipient gives the same address again, and
\* a normalised recipient always begins with the channel prefix "whatsapp:".
C17_NormalizeIdempotent ==
    /\ addr.once # None => addr.once # <<>> /\ addr.once[1] = "whatsapp:"
    /\ addr.twice # None => addr.twice = addr.once

C17_Witness ==
    /\ addr.input = <<" ", "9198", " ">>
    /\ addr.once = <<"whatsapp:", "+", "9198">>
    /\ addr.twice = <<"whatsapp:", "+", "9198">>


\* ---------------------------------------------------------------- dispatcher: helpers
ErrorMark == "(cross mark) "        \* the marker that opens every error string

IsErrorMarked(s) == StartsWith(s, ErrorMark)

\* the zone of the machine, east of UTC (05:30)
LocalOffset == 5 * SecondsPerHour + SecondsPerHour \div 2

UtcNow_local(c) == c + LocalOffset

\* datetime.utcnow(): a naive datetime that reads UTC
UtcNow(c) == c

\* line 69: the scheduler reads a naive run_date in its own timezone, "UTC"
SchedulerTimezone == "UTC"
Localize(naive, tz) == IF tz = "UTC" THEN naive ELSE naive - LocalOffset

\* float(delay_hours)
ToFloat(d) ==
    CASE d.kind \in {"number", "numeric_text"} -> [ok |-> TRUE, finite |-> TRUE, hours |-> d.hours]
      [] d.kind = "inf"                        -> [ok |-> TRUE, finite |-> FALSE, hours |-> 0]
      [] d.kind \in {"text", "none"}           -> [ok |-> FALSE, finite |-> FALSE, hours |-> 0]

RunTimeOf_zeroOnError(now, d) ==
    LET f == ToFloat(d)
    IN  IF f.ok /\ f.finite
        THEN [ok |-> TRUE, t |-> UtcNow(now) + f.hours * SecondsPerHour]
        ELSE [ok |-> TRUE, t |-> UtcNow(now)]

\* lines 149-152: run_time = utcnow() + timedelta(hours=float(delay_hours));
\* float() raises on text and None, timedelta on a value that is not finite
RunTimeOf(now, d) ==
    LET f == ToFloat(d)
    IN  IF f.ok /\ f.finite
        THEN [ok |-> TRUE, t |-> UtcNow(now) + f.hours * SecondsPerHour]
        ELSE [ok |-> FALSE, t |-> 0]

InvalidDelay == <<ErrorMark, "Invalid delay_hours value. Must be a number.">>
NotConfigured == <<ErrorMark, "Twilio credentials not configured (TWILIO_ACCOUNT_SID/TWILIO_AUTH_TOKEN/TWILIO_WHATSAPP_FROM).">>
SentText(sid, to_wh) == <<"WhatsApp (Twilio) sent: sid=", sid, ", to=">> \o to_wh
TwilioError(e) == <<ErrorMark, "Twilio error: ", e>>
ScheduledText(id, t) ==
    <<"Scheduled WhatsApp message (job_id=", id, ") for ", ToString(t), " UTC">>
RemovedText(id) == <<"Removed job ", id>>
RemoveError(id, e) == <<ErrorMark, "Error removing job ", id, ": ", e>>

\* an exception inside a try block of Tools comes back as a string
Returned(text) == [outcome |-> "returned", result |-> text]
\* an exception outside every try block leaves the operation
Raised(e) == [outcome |-> "raised", result |-> <<e>>]

Due(st, now) == {j \in st : j.next_run_time <= now}

\* the scheduler thread and the workers need far less time than the smallest
\* gap of TimeJumps and than the caller between two calls: time moves on, and
\* the caller sends, schedules or lists, only when they have nothing to do
Busy == proc # "down" /\ (pool # {} \/ Due(store, clock) # {} \/ second.due # {})

\* ---------------------------------------------------------------- dispatcher: time and process
Advance ==
    /\ advances < MaxAdvances
    /\ proc \in {"down", "up"}
    /\ ~Busy
    /\ \E d \in TimeJumps : clock' = clock + d
    /\ advances' = advances + 1
    /\ op' = OpIdle
    /\ UNCHANGED <<chatvars, proc, starts, TOOLS_INSTANCE, creds, store, pool, nextId,
                   jobLog, hbLog, chat_ctor, second, addr>>

\* a job of the store whose fire time has passed, by no more than the misfire grace
DueInGrace(st, now, id) ==
    \E j \in st : /\ j.id = id
                  /\ j.next_run_time <= now
                  /\ now - j.next_run_time <= MisfireGrace

\* Tools.__init__, lines 53-71: a fresh process reads the environment, builds
\* the client and the scheduler on the job store, and starts the scheduler
Construct_Start ==
    /\ proc = "down"
    /\ starts < MaxStarts
    /\ proc' = "started"
    /\ starts' = starts + 1
    /\ jobLog' = [i \in JobIds |->
                    [jobLog[i] EXCEPT !.dueAtStart = DueInGrace(store, clock, i)]]
    /\ op' = OpIdle
    /\ UNCHANGED <<chatvars, clock, advances, TOOLS_INSTANCE, creds, store, pool, nextId,
                   hbLog, chat_ctor, second, addr>>

\* Tools.__init__, lines 73-75: TOOLS_INSTANCE = self
Construct_Register ==
    /\ proc = "started"
    /\ proc' = "registered"
    /\ TOOLS_INSTANCE' = "tools"
    /\ op' = OpIdle
    /\ UNCHANGED <<chatvars, clock, advances, starts, creds, store, pool, nextId,
                   jobLog, hbLog, chat_ctor, second, addr>>

\* Tools.__init__, lines 77-79: the heartbeat job is added, replacing a stored one
Construct_Heartbeat ==
    /\ proc = "registered"
    /\ proc' = "up"
    /\ store' = {j \in store : j.id # HeartbeatId} \cup
                {Job(HeartbeatId, "interval", "heartbeat_runner",
                     clock + HeartbeatSeconds, <<>>)}
    /\ op' = OpIdle
    /\ UNCHANGED <<chatvars, clock, advances, starts, TOOLS_INSTANCE, creds, pool,
                   nextId, jobLog, hbLog, chat_ctor, second, addr>>

\* the process ends: its threads, its globals and the runs in its pool are gone;
\* the job store stays on disk
Exit ==
    /\ proc = "up"
    /\ proc' = "down"
    /\ TOOLS_INSTANCE' = "None"
    /\ pool' = {}
    /\ second' = NoSecond
    /\ op' = OpIdle
    /\ UNCHANGED <<chatvars, clock, advances, starts, creds, store, nextId, jobLog, hbLog,
                   chat_ctor, addr>>


\* ---------------------------------------------------------------- dispatcher: scheduler and workers
\* the last fire time of an interval job that is not after now
LastDue(j, now) ==
    j.next_run_time + HeartbeatSeconds * ((now - j.next_run_time) \div HeartbeatSeconds)

\* what the scheduler keeps of a job it has just handed out: a "date" job has
\* no further fire time and is removed, an "interval" job gets its next one
Reschedule(j, now) ==
    IF j.trigger = "date" THEN {}
    ELSE {[j EXCEPT !.next_run_time = LastDue(j, now) + HeartbeatSeconds]}

\* max_instances: an executor takes a job only while fewer than that many of
\* its runs are in its pool
MayRun(p, j) == Cardinality({r \in p : r.id = j.id}) < MaxInstances

\* one pass of the scheduler thread over the due jobs of the store (the
\* scheduler runs from line 70 on): each is handed to the worker pool and
\* rescheduled or removed
ProcessJobs ==
    /\ proc # "down"
    /\ Due(store, clock) # {}
    /\ LET due == Due(store, clock)
       IN  /\ pool' = pool \cup
                    {Run(j, IF j.trigger = "date" THEN j.next_run_time ELSE LastDue(j, clock), 1) :
                        j \in {k \in due : MayRun({r \in pool : r.by = 1}, k)}}
           /\ store' = (store \ due) \cup UNION {Reschedule(j, clock) : j \in due}
           /\ jobLog' = [i \in JobIds |->
                            IF \E j \in due : j.id = i
                            THEN [jobLog[i] EXCEPT !.dispatched = @ + 1]
                            ELSE jobLog[i]]
    /\ op' = OpIdle
    /\ UNCHANGED <<chatvars, clock, advances, proc, starts, TOOLS_INSTANCE, creds,
                   nextId, hbLog, chat_ctor, second, addr>>

\* a worker executes a run of run_scheduled (lines 20-30); the executor skips
\* a run that is later than the misfire grace
RunScheduled ==
    /\ \E r \in pool :
        /\ r.func = "run_scheduled"
        /\ pool' = pool \ {r}
        /\ jobLog' = [jobLog EXCEPT ![r.id] =
                IF clock - r.run_time > MisfireGrace THEN [@ EXCEPT !.missed = TRUE]
                ELSE IF TOOLS_INSTANCE = "None" THEN [@ EXCEPT !.unregistered = TRUE]
                ELSE [@ EXCEPT !.sends = @ + 1]]
    /\ op' = OpIdle
    /\ UNCHANGED <<chatvars, clock, advances, proc, starts, TOOLS_INSTANCE, creds, store,
                   nextId, hbLog, chat_ctor, second, addr>>

\* a worker executes a run of heartbeat_runner (lines 32-41)
RunHeartbeat ==
    /\ \E r \in pool :
        /\ r.func = "heartbeat_runner"
        /\ pool' = pool \ {r}
        /\ hbLog' = IF TOOLS_INSTANCE = "None"
                    THEN [hbLog EXCEPT !.unregistered = TRUE]
                    ELSE hbLog
    /\ op' = OpIdle
    /\ UNCHANGED <<chatvars, clock, advances, proc, starts, TOOLS_INSTANCE, creds, store,
                   nextId, jobLog, chat_ctor, second, addr>>

\* ---------------------------------------------------------------- dispatcher: public operations
\* what the messaging API may do with client.messages.create
TwilioOutcomes == {"SM1", "HTTP 400"}

\* what a caller may pass as to_number
SendRecipients == Recipients \cup {None}

\* send_whatsapp (lines 106-141), called by the owner of the instance; strip()
\* of lines 117 and 121 is outside the try block and has no meaning on None
send_whatsapp ==
    /\ proc = "up"
    /\ ~Busy
    /\ \E to \in SendRecipients, body \in Bodies, tw \in TwilioOutcomes :
        LET r == IF ~CanSend(creds) THEN Returned(NotConfigured)
                 ELSE IF creds.from_whatsapp = None \/ to = None
                      THEN Raised("AttributeError: 'NoneType' object has no attribute 'strip'")
                 ELSE IF tw = "SM1" THEN Returned(SentText(tw, NormalizeTo(to)))
                 ELSE Returned(TwilioError(tw))
        IN  op' = [name |-> "send_whatsapp", id |-> "", args |-> <<to, body>>,
                   delay |-> NoDelay, outcome |-> r.outcome, result |-> r.result,
                   listing |-> {}, before |-> store]
    /\ UNCHANGED <<chatvars, clock, advances, proc, starts, TOOLS_INSTANCE, creds, store,
                   pool, nextId, jobLog, hbLog, chat_ctor, second, addr>>

\* what the scheduler may do with a call that touches the job store
StoreOutcomes == {"ok", "OperationalError: database is locked"}

\* schedule_whatsapp (lines 144-163)
schedule_whatsapp ==
    /\ proc = "up"
    /\ ~Busy
    /\ \E to \in Recipients, body \in Bodies, d \in DelayInputs, so \in StoreOutcomes :
        LET rt == RunTimeOf(clock, d)
            id == ToString(nextId + 1)
            t  == Localize(rt.t, SchedulerTimezone)
        IN  IF ~rt.ok
            THEN /\ op' = [name |-> "schedule_whatsapp", id |-> "", args |-> <<to, body>>, delay |-> d,
                           outcome |-> "returned", result |-> InvalidDelay,
                           listing |-> {}, before |-> store]
                 /\ UNCHANGED <<store, nextId, jobLog>>
            ELSE IF so # "ok"
            THEN /\ op' = [name |-> "schedule_whatsapp", id |-> "", args |-> <<to, body>>, delay |-> d,
                           outcome |-> Raised(so).outcome, result |-> Raised(so).result,
                           listing |-> {}, before |-> store]
                 /\ UNCHANGED <<store, nextId, jobLog>>
            ELSE /\ nextId < MaxJobs
                 /\ store' = store \cup {Job(id, "date", "run_scheduled", t, <<to, body>>)}
                 /\ nextId' = nextId + 1
                 /\ jobLog' = [jobLog EXCEPT ![id] =
                        [@ EXCEPT !.scheduled = TRUE, !.args = <<to, body>>, !.run = t]]
                 /\ op' = [name |-> "schedule_whatsapp", id |-> id, args |-> <<to, body>>, delay |-> d,
                           outcome |-> "returned", result |-> ScheduledText(id, rt.t),
                           listing |-> {}, before |-> store]
    /\ UNCHANGED <<chatvars, clock, advances, proc, starts, TOOLS_INSTANCE, creds, pool,
                   hbLog, chat_ctor, second, addr>>

\* list_jobs (lines 166-168): no try block around scheduler.get_jobs()
list_jobs ==
    /\ proc = "up"
    /\ ~Busy
    /\ \E so \in StoreOutcomes :
        op' = IF so = "ok"
              THEN [name |-> "list_jobs", id |-> "", args |-> <<>>, delay |-> NoDelay,
                    outcome |-> "returned", result |-> None,
                    listing |-> {[id |-> j.id, next_run |-> j.next_run_time, args |-> j.args] :
                                    j \in store},
                    before |-> store]
              ELSE [name |-> "list_jobs", id |-> "", args |-> <<>>, delay |-> NoDelay,
                    outcome |-> Raised(so).outcome, result |-> Raised(so).result,
                    listing |-> {}, before |-> store]
    /\ UNCHANGED <<chatvars, clock, advances, proc, starts, TOOLS_INSTANCE, creds, store,
                   pool, nextId, jobLog, hbLog, chat_ctor, second, addr>>

CancelFailed_raises(id, e) == Raised(e)

\* lines 174-175: whatever scheduler.remove_job raises comes back as a string
CancelFailed(id, e) == Returned(RemoveError(id, e))

CancelIds == JobIds \cup {HeartbeatId, "no-such-job"}

\* cancel_job (lines 170-175)
cancel_job ==
    /\ proc = "up"
    /\ \E id \in CancelIds, so \in StoreOutcomes :
        LET r == IF so # "ok" THEN CancelFailed(id, so)
                 ELSE IF id \notin StoreIds(store)
                      THEN CancelFailed(id, "No job by the id of " \o id \o " was found")
                 ELSE Returned(RemovedText(id))
            removed == so = "ok" /\ id \in StoreIds(store)
        IN  /\ store' = IF removed THEN {j \in store : j.id # id} ELSE store
            /\ jobLog' = IF removed /\ id \in JobIds
                         THEN [jobLog EXCEPT ![id] = [@ EXCEPT !.cancelled = TRUE]]
                         ELSE jobLog
            /\ op' = [name |-> "cancel_job", id |-> id, args |-> <<>>, delay |-> NoDelay,
                      outcome |-> r.outcome, result |-> r.result,
                      listing |-> {}, before |-> store]
    /\ UNCHANGED <<chatvars, clock, advances, proc, starts, TOOLS_INSTANCE, creds, pool,
                   nextId, hbLog, chat_ctor, second, addr>>

\* ---------------------------------------------------------------- a second instance
\* Tools.__init__ (lines 52-79) called again in a process that has an instance:
\* nothing in it looks at TOOLS_INSTANCE or at a running scheduler, so a second
\* scheduler is started on the same job store, the new instance replaces the
\* old one in TOOLS_INSTANCE, and the heartbeat job is replaced
Construct_Again ==
    /\ proc = "up"
    /\ ~Busy
    /\ ~second.running
    /\ starts < MaxStarts
    /\ starts' = starts + 1
    /\ second' = [running |-> TRUE, due |-> {}]
    /\ TOOLS_INSTANCE' = "tools"
    /\ store' = {j \in store : j.id # HeartbeatId} \cup
                {Job(HeartbeatId, "interval", "heartbeat_runner",
                     clock + HeartbeatSeconds, <<>>)}
    /\ op' = OpIdle
    /\ UNCHANGED <<chatvars, clock, advances, proc, creds, pool, nextId, jobLog, hbLog,
                   chat_ctor, addr>>

\* the second scheduler reads the due jobs of the store; its lock is its own,
\* so the first scheduler and the callers of the first instance are not kept out
SecondReadsDue ==
    /\ second.running
    /\ second.due = {}
    /\ Due(store, clock) # {}
    /\ second' = [second EXCEPT !.due = Due(store, clock)]
    /\ op' = OpIdle
    /\ UNCHANGED <<chatvars, clock, advances, proc, starts, TOOLS_INSTANCE, creds, store,
                   pool, nextId, jobLog, hbLog, chat_ctor, addr>>

\* the due jobs are handled by fire time
FirstOf(due) == {j \in due : \A k \in due : j.next_run_time <= k.next_run_time}

\* the second scheduler hands the next job it has read to its executor, then
\* updates or removes it in the store; a job that is no longer in the store
\* makes that fail and ends the pass, and the scheduler thread may end with it
SecondDispatches ==
    /\ second.due # {}
    /\ \E j \in FirstOf(second.due), survives \in BOOLEAN :
        LET t == IF j.trigger = "date" THEN j.next_run_time ELSE LastDue(j, clock)
            stored == j.id \in StoreIds(store)
        IN  /\ pool' = IF MayRun({r \in pool : r.by = 2}, j)
                       THEN pool \cup {Run(j, t, 2)} ELSE pool
            /\ store' = IF stored
                        THEN {k \in store : k.id # j.id} \cup Reschedule(j, clock)
                        ELSE store
            /\ jobLog' = IF j.id \in JobIds
                         THEN [jobLog EXCEPT ![j.id] = [@ EXCEPT !.dispatched = @ + 1]]
                         ELSE jobLog
            /\ second' = IF stored
                         THEN [second EXCEPT !.due = @ \ {j}]
                         ELSE [running |-> survives, due |-> {}]
    /\ op' = OpIdle
    /\ UNCHANGED <<chatvars, clock, advances, proc, starts, TOOLS_INSTANCE, creds, nextId,
                   hbLog, chat_ctor, addr>>

DispInit == ChatIdle /\ creds = AllSet /\ NoProcess

DispNext ==
    \/ Advance
    \/ Construct_Start
    \/ Construct_Register
    \/ Construct_Heartbeat
    \/ Exit
    \/ ProcessJobs
    \/ RunScheduled
    \/ RunHeartbeat
    \/ send_whatsapp
    \/ schedule_whatsapp
    \/ list_jobs
    \/ cancel_job
    \/ Construct_Again
    \/ SecondReadsDue
    \/ SecondDispatches

DispSpec == DispInit /\ [][DispNext]_vars


\* ---------------------------------------------------------------- dispatcher: claims
\* C11: no public operation of the dispatcher lets an exception reach its
\* caller; every call made gives back a string or a listing
C11_NoExceptionReachesCaller == op.outcome # "raised"

\* C12: schedule_whatsapp with a delay_hours that float() does not accept gives
\* back the validation error string, and the jobs of the store are those of
\* before the call
C12_InvalidDelayCreatesNoJob ==
    (op.name = "schedule_whatsapp" /\ ~ToFloat(op.delay).ok) =>
        /\ op.outcome = "returned"
        /\ op.result = InvalidDelay
        /\ store = op.before

C12_Witness ==
    /\ op.name = "schedule_whatsapp"
    /\ op.delay.kind = "text"
    /\ op.result = InvalidDelay
    /\ \E j \in store : j.id = "1"

\* C13: cancel_job with an identifier that the store does not hold gives back
\* an error-marked string, raises nothing, and leaves the stored jobs as they were
C13_CancelUnknownJob ==
    (op.name = "cancel_job" /\ op.id \notin StoreIds(op.before)) =>
        /\ op.outcome = "returned"
        /\ IsErrorMarked(op.result)
        /\ store = op.before

C13_Witness ==
    /\ op.name = "cancel_job"
    /\ op.id = "1"
    /\ jobLog["1"].sends = 1
    /\ op.id \notin StoreIds(op.before)
    /\ IsErrorMarked(op.result)


\* the jobs schedule_whatsapp has created so far
Created == {i \in JobIds : jobLog[i].scheduled}

\* C14: a one-shot job is in the job store, and in what list_jobs gives, from
\* the return of schedule_whatsapp until the scheduler fires it (hands its run
\* to the worker pool) or cancel_job removes it, and is not in the store after
\* that; a job that cancel_job reported as removed is never fired
C14_JobStoredUntilFiredOrCancelled ==
    /\ \A i \in Created :
        /\ i \in StoreIds(store) <=> (jobLog[i].dispatched = 0 /\ ~jobLog[i].cancelled)
        /\ jobLog[i].cancelled =>
              /\ jobLog[i].dispatched = 0
              /\ jobLog[i].sends = 0
              /\ \A r \in pool : r.id # i
    /\ (op.name = "list_jobs" /\ op.outcome = "returned") =>
          {e.id : e \in op.listing} = StoreIds(store)
    /\ (op.name = "schedule_whatsapp" /\ op.id # "") => op.id \in StoreIds(store)
    /\ (op.name = "cancel_job" /\ op.result = RemovedText(op.id)) =>
          op.id \in StoreIds(op.before) /\ op.id \notin StoreIds(store)

\* C19: whenever a worker executes run_scheduled or heartbeat_runner, the
\* instance is registered in TOOLS_INSTANCE
C19_WorkerFindsInstance ==
    /\ \A i \in JobIds : ~jobLog[i].unregistered
    /\ ~hbLog.unregistered

\* C15: a job whose fire time passed while the process was down, by no more
\* than the misfire grace when the next instance is constructed, is fired by
\* that instance and its send is attempted
C15_LateJobIsSent ==
    \A i \in Created :
        (/\ jobLog[i].dueAtStart
         /\ proc # "down"
         /\ jobLog[i].dispatched = 1
         /\ \A r \in pool : r.id # i)
        => jobLog[i].sends = 1

\* C18: every numeric delay_hours makes schedule_whatsapp store a one-shot job
\* that fires at the UTC time of the call plus delay_hours and carries the
\* recipient and the message
C18_EveryNumericDelayStoresJob ==
    (op.name = "schedule_whatsapp" /\ ToFloat(op.delay).ok) =>
        \E j \in store :
            /\ j.id = op.id
            /\ j.trigger = "date"
            /\ j.next_run_time = clock + op.delay.hours * SecondsPerHour
            /\ j.args = op.args

\* C18, for a finite delay_hours: when schedule_whatsapp gives back a job
\* identifier, the store holds a one-shot job of that identifier that fires at
\* the UTC time of the call plus delay_hours and carries the recipient and the
\* message; a delay_hours that is not finite gives the validation error string
C18_FiniteDelayStoresJob ==
    /\ (op.name = "schedule_whatsapp" /\ op.outcome = "returned" /\
        ToFloat(op.delay).ok /\ ToFloat(op.delay).finite) =>
          /\ op.result = ScheduledText(op.id, clock + op.delay.hours * SecondsPerHour)
          /\ \E j \in store :
                /\ j.id = op.id
                /\ j \notin op.before
                /\ j.trigger = "date"
                /\ j.func = "run_scheduled"
                /\ j.next_run_time = clock + op.delay.hours * SecondsPerHour
                /\ j.args = op.args
    /\ (op.name = "schedule_whatsapp" /\ ToFloat(op.delay).ok /\
        ~ToFloat(op.delay).finite) =>
          op.result = InvalidDelay /\ store = op.before

C18_Witness ==
    /\ op.name = "schedule_whatsapp"
    /\ op.delay = [kind |-> "numeric_text", hours |-> 12]
    /\ clock = HeartbeatSeconds
    /\ op.args = <<<<"+", "9198">>, <<"ping">>>>
    /\ \E j \in store : j.id = op.id /\ j.next_run_time = HeartbeatSeconds + 12 * SecondsPerHour


\* ---------------------------------------------------------------- construction
ApiKeys == {Unset, "", "key"}
EnvKeys == {Unset, "key"}

\* truth of an optional string: neither None nor empty
HasText(k) == k \notin {Unset, ""}

\* line 16: `api_key or os.getenv("GEMINI_API_KEY")`
ResolvedKey(api_key, env_key) == IF HasText(api_key) THEN api_key ELSE env_key

KeyMissing_neverRaises(k) == FALSE

\* line 17: `not self.api_key`
KeyMissing(k) == ~HasText(k)

\* OpenAIClientWithMemoryAndTools.__init__ (lines 15-24), in a process whose
\* environment holds env_key as GEMINI_API_KEY
ConstructChat ==
    /\ chat_ctor.state = "none"
    /\ \E a \in ApiKeys, e \in EnvKeys :
        chat_ctor' = [api_key |-> a, env_key |-> e,
                      state |-> IF KeyMissing(ResolvedKey(a, e))
                                THEN "ValueError" ELSE "constructed"]
    /\ UNCHANGED <<chatvars, clock, advances, proc, starts, TOOLS_INSTANCE, creds, store,
                   pool, nextId, op, jobLog, hbLog, second, addr>>

CtorInit == ChatIdle /\ creds \in CredCases /\ NoProcess

CtorNext ==
    \/ ConstructChat
    \/ Construct_Start
    \/ Construct_Register
    \/ Construct_Heartbeat
    \/ send_whatsapp

CtorSpec == CtorInit /\ [][CtorNext]_vars

\* C16: constructing either component without a required credential raises at
\* construction, so no instance that lacks a required credential exists
C16_NoInstanceWithoutCredential ==
    /\ chat_ctor.state = "constructed" =>
          HasText(ResolvedKey(chat_ctor.api_key, chat_ctor.env_key))
    /\ proc = "up" => CanSend(creds)

\* C16, as the constructors behave: the conversational client raises
\* ValueError exactly when neither the parameter nor the environment gives a
\* key; the dispatcher is constructed whatever the messaging credentials are,
\* and send_whatsapp of an instance that lacks one gives the "not configured"
\* error string, whatever it is asked to send
C16_MissingCredentialHandling ==
    /\ chat_ctor.state = "ValueError" <=>
          (chat_ctor # ChatCtorIdle /\
           ~HasText(chat_ctor.api_key) /\ ~HasText(chat_ctor.env_key))
    /\ (op.name = "send_whatsapp" /\ ~CanSend(creds)) =>
          op.outcome = "returned" /\ op.result = NotConfigured

C16_Witness ==
    /\ chat_ctor.state = "ValueError"
    /\ proc = "up"
    /\ creds.token = Unset
    /\ op.name = "send_whatsapp"
    /\ op.result = NotConfigured


\* ---------------------------------------------------------------- one send, one heartbeat
\* C21: a job created by one schedule_whatsapp call leads to at most one
\* invocation of send_whatsapp with its recipient and message
C21_AtMostOneSend == \A i \in JobIds : jobLog[i].sends <= 1

\* C22: once a Tools instance has been constructed, the job store holds
\* exactly one job with the identifier "heartbeat_job"
C22_OneHeartbeatJob ==
    proc = "up" => Cardinality({j \in store : j.id = HeartbeatId}) = 1

====
